---- MODULE Spec2Model ----
(***************************************************************************)
(* Fitness coach backend: the /coach request handler with its bounded      *)
(* tool-calling loop (app.py), the conversation history store (memory.py), *)
(* the profile store (user_profile.py) and the tool catalog (tools.py).    *)
(*                                                                         *)
(* Python strings are modelled as tuples of strings: the first element is  *)
(* the literal template of the text, the following ones the values that    *)
(* an f-string substitutes into it.  Optional numeric arguments are the    *)
(* strings "None", "0", "70", ...; Truthy gives Python's truth value.      *)
(***************************************************************************)
EXTENDS Integers, Sequences, FiniteSets, TLC

VARIABLES
    history,          \* conversation_memory/<user>.json : user -> list of turns
    profiles,         \* user_profiles.json : user -> profile record
    pc,               \* position of each /coach request in coach_session
    worker,           \* the server process (event loop) that runs the request
    user_id,          \* query.user_id
    voice_transcript, \* query.voice_transcript
    chat,             \* the ChatSession's seeded history (create_gemini_chat)
    calls,            \* number of chat.send_message calls made by the request
    current_content,  \* the content the next send_message call sends
    ai_text,          \* the loop's answer
    model_text,       \* response.text of the latest response (NoText: none)
    hist_local,       \* `history` local of update_conversation_history
    err,              \* the exception the handler's try block raised, if any
    advice,           \* the response returned to the client
    last_tool,        \* the dispatch of the latest loop iteration, if it had one
    dispatches,       \* number of function_call directives handled
    delivered,        \* number of function_response contents sent to the model
    ran,              \* user ids the request's tools were executed with
    written,          \* full transcript passed to update_conversation_history
    nupdates,         \* number of update_conversation_history calls made
    prof_call,        \* arguments of the latest update_user_physical_stats call
    prof_before       \* the profile of that user before that call

vars == <<history, profiles, pc, worker, user_id, voice_transcript, chat, calls,
          current_content, ai_text, model_text, hist_local, err, advice,
          last_tool, dispatches, delivered, ran, written, nupdates, prof_call,
          prof_before>>

reqVars == <<pc, worker, user_id, voice_transcript, chat, calls, current_content,
             ai_text, model_text, hist_local, err, advice, last_tool, dispatches,
             delivered, ran>>

memVars == <<written, nupdates>>

profVars == <<prof_call, prof_before>>

----------------------------------------------------------------------------
(* Universe of the model *)

Users == {"u1", "u2"}

Requests == {"r1", "r2"}

Workers == {"w1", "w2"}

None == "None"

NoText == <<>>

\* for _ in range(10)
MAX_TURNS == 10

\* memory.py: MAX_HISTORY_LENGTH = 10
MAX_HISTORY_LENGTH == 10

\* ai_text = "I'm sorry, I couldn't process your request."
FALLBACK == <<"I'm sorry, I couldn't process your request.">>

\* texts the remote model may answer with
ModelTexts == {<<"Great week: activity 42", "30km">>, <<"Please tell me your weight">>}

\* the utterance each request carries
Utterance(r) == <<"utterance", r>>

----------------------------------------------------------------------------
(* memory.py *)

Max(a, b) == IF a >= b THEN a ELSE b

\* Python's seq[-n:] : the last n elements (the whole list when shorter)
LastN(seq, n) == SubSeq(seq, Max(1, Len(seq) - n + 1), Len(seq))

Turn(role, content) == [role |-> role, content |-> content]

\* get_conversation_history: [] when the file is absent, else history[-10:]
get_conversation_history(store, u) == LastN(store[u], MAX_HISTORY_LENGTH)

\* history[:MAX_HISTORY_LENGTH]: prunes from the wrong end
history_to_save_head(h, user_query, ai_response) ==
    LET all == h \o <<Turn("user", user_query), Turn("assistant", ai_response)>>
    IN SubSeq(all, 1, IF Len(all) <= MAX_HISTORY_LENGTH THEN Len(all)
                      ELSE MAX_HISTORY_LENGTH)

\* update_conversation_history, lines 29-33: append the exchange and prune
history_to_save(h, user_query, ai_response) ==
    LastN(h \o <<Turn("user", user_query), Turn("assistant", ai_response)>>,
          MAX_HISTORY_LENGTH)

----------------------------------------------------------------------------
(* user_profile.py *)

\* Python truthiness of an optional number: None and 0 are falsy
Truthy(v) == v \notin {None, "0"}

\* profiles.get(user_id, {}) : a user without record has no keys
NoProfile == [present |-> FALSE, weight_kg |-> None, ftp |-> None]

get_user_profile(profs, u) == profs[u]

\* profiles[user_id]["ftp"] = ftp without the `if ftp`
StoreFtpAlways(old, ftp) == ftp

\* if ftp: profiles[user_id]["ftp"] = ftp
StoreFtp(old, ftp) == IF Truthy(ftp) THEN ftp ELSE old

\* if weight_kg: profiles[user_id]["weight_kg"] = weight_kg
StoreWeight(old, weight_kg) == IF Truthy(weight_kg) THEN weight_kg ELSE old

\* update_user_profile: the record of user_id after the call
UpdatedProfile(old, weight_kg, ftp) ==
    [present   |-> TRUE,
     weight_kg |-> StoreWeight(old.weight_kg, weight_kg),
     ftp       |-> StoreFtp(old.ftp, ftp)]

update_user_profile(profs, u, weight_kg, ftp) ==
    [profs EXCEPT ![u] = UpdatedProfile(profs[u], weight_kg, ftp)]

\* updated.get('weight_kg', '?')
GetOr(v, default) == IF v = None THEN default ELSE v

----------------------------------------------------------------------------
(* tools.py and strava_client.py *)

\* What the activity provider (or, for update_stats, the profile file) does
\* during one tool execution
ProviderOutcomes == {"data", "empty", "fail"}

\* An argument mapping dict(fc.args) is a set of <<key, value>> pairs
Keys(args) == {p[1] : p \in args}

Arg(args, k) ==
    IF k \in Keys(args) THEN (CHOOSE p \in args : p[1] = k)[2] ELSE None

\* fetch_recent_activities: raises HTTPException when the provider call fails
fetch_recent_activities(env) ==
    IF env = "fail"
    THEN [raised |-> TRUE, cause |-> "500: Strava fetch failed", data |-> "none"]
    ELSE [raised |-> FALSE, cause |-> None, data |-> env]

\* A stream fetch that lets the failure out, as fetch_recent_activities does
fetch_activity_streams_raises(env) ==
    IF env = "fail"
    THEN [raised |-> TRUE, cause |-> "500: Strava fetch failed", data |-> "none"]
    ELSE [raised |-> FALSE, cause |-> None, data |-> env]

\* fetch_activity_streams: `except Exception` returns None, it never raises
fetch_activity_streams(env) ==
    [raised |-> FALSE, cause |-> None,
     data |-> IF env = "fail" THEN "none" ELSE env]

\* get_recent_activities_summary(user_id)
get_recent_activities_summary(uid, args, env, profs) ==
    LET raw == fetch_recent_activities(env) IN
    IF raw.raised
    THEN [raised |-> TRUE, cause |-> raw.cause, text |-> NoText, profiles |-> profs]
    ELSE IF raw.data = "empty"
    THEN [raised |-> FALSE, cause |-> None, profiles |-> profs,
          text |-> <<"No recent activities found.">>]
    ELSE [raised |-> FALSE, cause |-> None, profiles |-> profs,
          text |-> <<"Found 1 activities in the last 14 days:", "ID: 42",
                     IF Truthy(get_user_profile(profs, uid).weight_kg)
                     THEN "Power: W/kg" ELSE "">>]

\* analyze_specific_ride_depth(user_id, activity_id)
analyze_specific_ride_depth(uid, args, env, profs) ==
    LET streams == fetch_activity_streams(env) IN
    IF streams.raised
    THEN [raised |-> TRUE, cause |-> streams.cause, text |-> NoText, profiles |-> profs]
    ELSE IF streams.data # "data"
    THEN [raised |-> FALSE, cause |-> None, profiles |-> profs,
          text |-> <<"Could not fetch detailed data streams for this activity.">>]
    ELSE [raised |-> FALSE, cause |-> None, profiles |-> profs,
          text |-> <<"Heart Rate Analysis for", "Activity", Arg(args, "activity_id")>>]

\* check_progression(user_id)
check_progression(uid, args, env, profs) ==
    LET raw == fetch_recent_activities(env) IN
    IF raw.raised
    THEN [raised |-> TRUE, cause |-> raw.cause, text |-> NoText, profiles |-> profs]
    ELSE IF raw.data = "empty"
    THEN [raised |-> FALSE, cause |-> None, profiles |-> profs,
          text |-> <<"Not enough data to check progression.">>]
    ELSE [raised |-> FALSE, cause |-> None, profiles |-> profs,
          text |-> <<"Your weekly volume is", "% compared to your 4-week average.">>]

\* update_user_physical_stats(user_id, weight_kg=None, ftp=None); the profile
\* file's open/json.load/json.dump may raise OSError (env = "fail")
update_user_physical_stats(uid, args, env, profs) ==
    IF env = "fail"
    THEN [raised |-> TRUE, cause |-> "OSError: user_profiles.json",
          text |-> NoText, profiles |-> profs]
    ELSE LET after   == update_user_profile(profs, uid, Arg(args, "weight_kg"),
                                            Arg(args, "ftp"))
             updated == after[uid]
         IN [raised |-> FALSE, cause |-> None, profiles |-> after,
             text |-> <<"Profile updated. Weight: ", GetOr(updated.weight_kg, "?"),
                        "kg, FTP: ", GetOr(updated.ftp, "?"), "W.">>]

----------------------------------------------------------------------------
(* app.py: the dispatcher *)

\* tools.py, tool_registry.get(tool_name): the registry keyed by the
\* functions' own names, which app.py does not use
tool_registry(tool_name) ==
    CASE tool_name = "get_recent_activities_summary" -> "get_recent_activities_summary"
      [] tool_name = "analyze_specific_ride_depth"   -> "analyze_specific_ride_depth"
      [] tool_name = "check_progression"             -> "check_progression"
      [] tool_name = "update_user_physical_stats"    -> "update_user_physical_stats"
      [] OTHER                                       -> None

\* GEMINI_TOOL_MAP.get(tool_name)
GEMINI_TOOL_MAP(tool_name) ==
    CASE tool_name = "my_recent_activities" -> "get_recent_activities_summary"
      [] tool_name = "analyze_ride"         -> "analyze_specific_ride_depth"
      [] tool_name = "my_progression"       -> "check_progression"
      [] tool_name = "update_stats"         -> "update_user_physical_stats"
      [] OTHER                              -> None

\* Keyword parameters of each tool function other than user_id
Params(func) ==
    CASE func = "analyze_specific_ride_depth" -> {"activity_id"}
      [] func = "update_user_physical_stats"  -> {"weight_kg", "ftp"}
      [] OTHER                                -> {}

\* Those without a default value
Required(func) ==
    CASE func = "analyze_specific_ride_depth" -> {"activity_id"}
      [] OTHER                                -> {}

\* func_to_run(**{"user_id": query.user_id, **tool_args}): a user_id key of the
\* model's mapping replaces the request's
CallBindingOverride(func, uid, tool_args) ==
    [ok |-> TRUE, cause |-> None,
     user_id |-> IF "user_id" \in Keys(tool_args) THEN Arg(tool_args, "user_id")
                 ELSE uid]

\* func_to_run(user_id=query.user_id, **tool_args): Python binds the keywords
\* before the function body runs; a repeated, unexpected or missing keyword
\* raises TypeError and the body never runs
CallBinding(func, uid, tool_args) ==
    IF "user_id" \in Keys(tool_args)
    THEN [ok |-> FALSE, user_id |-> None,
          cause |-> "TypeError: got multiple values for keyword argument 'user_id'"]
    ELSE IF ~(Keys(tool_args) \subseteq Params(func))
    THEN [ok |-> FALSE, user_id |-> None,
          cause |-> "TypeError: got an unexpected keyword argument"]
    ELSE IF ~(Required(func) \subseteq Keys(tool_args))
    THEN [ok |-> FALSE, user_id |-> None,
          cause |-> "TypeError: missing 1 required positional argument"]
    ELSE [ok |-> TRUE, user_id |-> uid, cause |-> None]

\* The body of the resolved function
Body(func, uid, args, env, profs) ==
    CASE func = "get_recent_activities_summary" ->
            get_recent_activities_summary(uid, args, env, profs)
      [] func = "analyze_specific_ride_depth" ->
            analyze_specific_ride_depth(uid, args, env, profs)
      [] func = "check_progression" ->
            check_progression(uid, args, env, profs)
      [] func = "update_user_physical_stats" ->
            update_user_physical_stats(uid, args, env, profs)

\* result = f"Error executing {tool_name}: {str(e)}"
ErrorExecuting(tool_name, cause) == <<"Error executing ", tool_name, ": ", cause>>

\* result = f"Error: Tool {tool_name} not found."
ToolNotFound(tool_name) == <<"Error: Tool ", tool_name, " not found.">>

\* Lines 138-147: resolve the name, run the tool, catch what it raises.
\* outcome: "ok" (tool returned), "raised" (caught), "unknown" (not in the map);
\* ran_as: the user id the tool body ran with, None when no body ran.
Dispatch(tool_name, tool_args, uid, env, profs) ==
    LET func_to_run == GEMINI_TOOL_MAP(tool_name) IN
    IF func_to_run = None
    THEN [outcome |-> "unknown", cause |-> None, ran_as |-> None,
          result |-> ToolNotFound(tool_name), profiles |-> profs]
    ELSE LET call == CallBinding(func_to_run, uid, tool_args) IN
         IF ~call.ok
         THEN [outcome |-> "raised", cause |-> call.cause, ran_as |-> None,
               result |-> ErrorExecuting(tool_name, call.cause), profiles |-> profs]
         ELSE LET out == Body(func_to_run, call.user_id, tool_args, env, profs) IN
              IF out.raised
              THEN [outcome |-> "raised", cause |-> out.cause, ran_as |-> call.user_id,
                    result |-> ErrorExecuting(tool_name, out.cause),
                    profiles |-> out.profiles]
              ELSE [outcome |-> "ok", cause |-> None, ran_as |-> call.user_id,
                    result |-> out.text, profiles |-> out.profiles]

\* current_content = {"role": "function", "parts": [{"function_response": ...}]}
FunctionResponse(tool_name, result) ==
    [role |-> "function", name |-> tool_name, text |-> result]

\* current_content = query.voice_transcript
UserContent(text) == [role |-> "user", name |-> None, text |-> text]

\* return {"advice": f"I encountered an error: {str(e)}"}
ErrorAdvice(cause) == <<"I encountered an error: ", cause>>

\* `except requests.exceptions.RequestException`: file errors pass through
CaughtRequestErrorsOnly(cause) ==
    cause \in {"ConnectionError: send_message"}

\* `except Exception` catches every exception the steps of the handler raise
Caught(cause) == TRUE

\* create_gemini_chat, lines 100-103: OpenAI roles to Gemini roles
gemini_history(h) ==
    [i \in 1..Len(h) |->
        [role |-> IF h[i].role = "user" THEN "user" ELSE "model",
         parts |-> <<h[i].content>>]]

\* create_gemini_chat, line 78: tools = [my_recent_activities, analyze_ride,
\* my_progression, update_stats], the names declared to the remote model
DeclaredTools == {"my_recent_activities", "analyze_ride", "my_progression",
                  "update_stats"}

\* Lines 61-75: the parameters of each declared stub
DeclaredParams(tool_name) ==
    CASE tool_name = "analyze_ride" -> {"activity_id"}
      [] tool_name = "update_stats" -> {"weight_kg", "ftp"}
      [] OTHER                      -> {}

\* Those a stub declares without a default value
DeclaredRequired(tool_name) ==
    CASE tool_name = "analyze_ride" -> {"activity_id"}
      [] OTHER                      -> {}

\* A directive that follows the declaration: a declared name, only declared
\* argument names, every required one present
Declared(tool_name, tool_args) ==
    /\ tool_name \in DeclaredTools
    /\ Keys(tool_args) \subseteq DeclaredParams(tool_name)
    /\ DeclaredRequired(tool_name) \subseteq Keys(tool_args)

\* The tools whose body queries the activity provider
ProviderTools == {"my_recent_activities", "analyze_ride", "my_progression"}

----------------------------------------------------------------------------
(* app.py: coach_session, one action per step of the handler *)

ToolNames == {"my_recent_activities", "analyze_ride", "my_progression",
              "update_stats", "bogus_tool"}

\* Argument mappings the remote model may put in a directive
ToolArgs ==
    {{}, {<<"activity_id", "42">>}, {<<"weight_kg", "70">>}, {<<"ftp", "250">>},
     {<<"weight_kg", "0">>, <<"ftp", "250">>}}
    \cup {{<<"user_id", u>>} : u \in Users}
    \cup {{<<"user_id", u>>, <<"activity_id", "42">>} : u \in Users}

NoTool ==
    [outcome |-> "none", name |-> None, cause |-> None, arg_user |-> None,
     declared |-> FALSE, provider |-> None]

\* A server process runs one async handler at a time: coach_session has no
\* await, so it runs from entry to return without yielding its event loop.
WorkerFree(w) == \A q \in Requests : pc[q] \in {"idle", "done"} \/ worker[q] # w

Raise(r, cause) ==
    /\ pc' = [pc EXCEPT ![r] = "except"]
    /\ err' = [err EXCEPT ![r] = cause]

\* A request arrives: POST /coach {user_id, voice_transcript}
Receive(r, u, w) ==
    /\ pc[r] = "idle"
    /\ WorkerFree(w)
    /\ pc' = [pc EXCEPT ![r] = "load"]
    /\ worker' = [worker EXCEPT ![r] = w]
    /\ user_id' = [user_id EXCEPT ![r] = u]
    /\ voice_transcript' = [voice_transcript EXCEPT ![r] = Utterance(r)]
    /\ UNCHANGED <<model_text, history, profiles, chat, calls, current_content, ai_text,
                   hist_local, err, advice, last_tool, dispatches, delivered, ran,
                   memVars, profVars>>

\* Lines 114-118: load the history, create the chat, set the loop's locals
InitChat(r) ==
    /\ pc[r] = "load"
    /\ chat' = [chat EXCEPT
                   ![r] = gemini_history(get_conversation_history(history, user_id[r]))]
    /\ current_content' = [current_content EXCEPT
                              ![r] = UserContent(voice_transcript[r])]
    /\ ai_text' = [ai_text EXCEPT ![r] = FALLBACK]
    /\ pc' = [pc EXCEPT ![r] = "loop"]
    /\ UNCHANGED <<model_text, history, profiles, worker, user_id, voice_transcript, calls,
                   hist_local, err, advice, last_tool, dispatches, delivered, ran,
                   memVars, profVars>>

\* get_conversation_history (json.load) or create_gemini_chat raises
InitChatRaises(r) ==
    /\ pc[r] = "load"
    /\ \E cause \in {"JSONDecodeError: history file", "ValueError: start_chat"} :
          Raise(r, cause)
    /\ UNCHANGED <<model_text, history, profiles, worker, user_id, voice_transcript, chat,
                   calls, current_content, ai_text, hist_local, advice, last_tool,
                   dispatches, delivered, ran, memVars, profVars>>

\* `while True` instead of `for _ in range(10)`
RangeNeverExhausted(n) == FALSE

\* range(11): one iteration too many
RangeOffByOne(n) == n >= MAX_TURNS + 1

\* Line 121: for _ in range(10) has no iteration left after n iterations
RangeExhausted(n) == n >= MAX_TURNS

\* Line 121: the request is in the loop, about to start an iteration
InLoop(r) == pc[r] = "loop" /\ ~RangeExhausted(calls[r])

\* Line 121 after an iteration that did not break: the next iteration, or
\* line 170 when the range is exhausted
AfterIteration(r) == IF RangeExhausted(calls[r] + 1) THEN "save" ELSE "loop"

\* Line 124: chat.send_message(current_content) returned a response
Sent(r) ==
    /\ calls' = [calls EXCEPT ![r] = @ + 1]
    /\ delivered' = [delivered EXCEPT
                        ![r] = IF current_content[r].role = "function"
                               THEN @ + 1 ELSE @]

\* Line 124 raises, or reading the response (parts[0], .text) raises
SendMessageRaises(r) ==
    /\ InLoop(r)
    /\ calls' = [calls EXCEPT ![r] = @ + 1]
    /\ \E cause \in {"ConnectionError: send_message", "IndexError: parts",
                     "ValueError: response.text"} : Raise(r, cause)
    /\ last_tool' = [last_tool EXCEPT ![r] = NoTool]
    /\ model_text' = [model_text EXCEPT ![r] = NoText]
    /\ UNCHANGED <<history, profiles, worker, user_id, voice_transcript, chat,
                   current_content, ai_text, hist_local, advice, dispatches,
                   delivered, ran, memVars, profVars>>

\* Lines 124-162: the model answers with a function_call; dispatch it.
\* The remote model emits at most tool_rounds directives in one request, each
\* naming a tool of `names` with an argument mapping of `argsets`.
ModelRequestsTool(r, tool_rounds, names, argsets) ==
    /\ InLoop(r)
    /\ dispatches[r] < tool_rounds
    /\ Sent(r)
    /\ \E tool_name \in names, tool_args \in argsets, env \in ProviderOutcomes :
          LET d == Dispatch(tool_name, tool_args, user_id[r], env, profiles) IN
          /\ profiles' = d.profiles
          /\ current_content' = [current_content EXCEPT
                                    ![r] = FunctionResponse(tool_name, d.result)]
          /\ last_tool' = [last_tool EXCEPT
                              ![r] = [outcome |-> d.outcome, name |-> tool_name,
                                      cause |-> d.cause,
                                      arg_user |-> Arg(tool_args, "user_id"),
                                      declared |-> Declared(tool_name, tool_args),
                                      provider |->
                                          IF /\ d.ran_as # None
                                             /\ tool_name \in ProviderTools
                                          THEN env ELSE None]]
          /\ ran' = [ran EXCEPT
                        ![r] = IF d.ran_as = None THEN @ ELSE @ \cup {d.ran_as}]
    /\ dispatches' = [dispatches EXCEPT ![r] = @ + 1]
    /\ pc' = [pc EXCEPT ![r] = AfterIteration(r)]
    /\ model_text' = [model_text EXCEPT ![r] = NoText]
    /\ UNCHANGED <<history, worker, user_id, voice_transcript, chat, ai_text,
                   hist_local, err, advice, memVars, profVars>>

\* The text branch without its `break`
ModelReturnsTextNoBreak(r) ==
    /\ InLoop(r)
    /\ Sent(r)
    /\ \E text \in ModelTexts :
          /\ model_text' = [model_text EXCEPT ![r] = text]
          /\ ai_text' = [ai_text EXCEPT ![r] = text]
    /\ last_tool' = [last_tool EXCEPT ![r] = NoTool]
    /\ pc' = [pc EXCEPT ![r] = AfterIteration(r)]
    /\ UNCHANGED <<history, profiles, worker, user_id, voice_transcript, chat,
                   current_content, hist_local, err, advice, dispatches, ran,
                   memVars, profVars>>

\* Lines 124, 164-167: the model answers with text; break
ModelReturnsText(r) ==
    /\ InLoop(r)
    /\ Sent(r)
    /\ \E text \in ModelTexts :
          /\ model_text' = [model_text EXCEPT ![r] = text]
          /\ ai_text' = [ai_text EXCEPT ![r] = text]
    /\ last_tool' = [last_tool EXCEPT ![r] = NoTool]
    /\ pc' = [pc EXCEPT ![r] = "save"]
    /\ UNCHANGED <<history, profiles, worker, user_id, voice_transcript, chat,
                   current_content, hist_local, err, advice, dispatches, ran,
                   memVars, profVars>>

\* memory.py line 27: update_conversation_history reads the stored history
SaveRead(r) ==
    /\ pc[r] = "save"
    /\ hist_local' = [hist_local EXCEPT
                         ![r] = get_conversation_history(history, user_id[r])]
    /\ pc' = [pc EXCEPT ![r] = "write"]
    /\ UNCHANGED <<model_text, history, profiles, worker, user_id, voice_transcript, chat,
                   calls, current_content, ai_text, err, advice, last_tool,
                   dispatches, delivered, ran, memVars, profVars>>

\* An update that reads the stored history at the moment it writes it
SavedAtomically(r) ==
    history_to_save(get_conversation_history(history, user_id[r]),
                    voice_transcript[r], ai_text[r])

\* An update that also persists the tool outcome the loop built last
SavedWithToolOutcome(r) ==
    history_to_save(
        IF current_content[r].role = "function"
        THEN hist_local[r] \o <<Turn("function", current_content[r].text)>>
        ELSE hist_local[r],
        voice_transcript[r], ai_text[r])

\* The file the request's update writes
Saved(r) == history_to_save(hist_local[r], voice_transcript[r], ai_text[r])

\* memory.py lines 29-37 and app.py line 171: write the file, return the advice
SaveWrite(r) ==
    /\ pc[r] = "write"
    /\ history' = [history EXCEPT ![user_id[r]] = Saved(r)]
    /\ advice' = [advice EXCEPT ![r] = ai_text[r]]
    /\ pc' = [pc EXCEPT ![r] = "done"]
    /\ UNCHANGED <<model_text, profiles, worker, user_id, voice_transcript, chat, calls,
                   current_content, ai_text, hist_local, err, last_tool,
                   dispatches, delivered, ran, memVars, profVars>>

\* update_conversation_history raises when reading or opening the file; the
\* file is left as it was
SaveRaises(r) ==
    /\ pc[r] \in {"save", "write"}
    /\ Raise(r, "OSError: history file")
    /\ UNCHANGED <<model_text, history, profiles, worker, user_id, voice_transcript, chat,
                   calls, current_content, ai_text, hist_local, advice, last_tool,
                   dispatches, delivered, ran, memVars, profVars>>

\* An except block that records the failed exchange before it returns
ExceptSavesHistory(r) ==
    /\ pc[r] = "except"
    /\ pc' = [pc EXCEPT ![r] = "done"]
    /\ advice' = [advice EXCEPT ![r] = ErrorAdvice(err[r])]
    /\ history' = [history EXCEPT
                      ![user_id[r]] =
                          history_to_save(get_conversation_history(history, user_id[r]),
                                          voice_transcript[r], ErrorAdvice(err[r]))]
    /\ UNCHANGED <<model_text, profiles, worker, user_id, voice_transcript, chat,
                   calls, current_content, ai_text, hist_local, err, last_tool,
                   dispatches, delivered, ran, memVars, profVars>>

\* Lines 173-176: except Exception -> the apology is returned as the advice
Except(r) ==
    /\ pc[r] = "except"
    /\ pc' = [pc EXCEPT ![r] = IF Caught(err[r]) THEN "done" ELSE "crashed"]
    /\ advice' = [advice EXCEPT
                     ![r] = IF Caught(err[r]) THEN ErrorAdvice(err[r]) ELSE @]
    /\ UNCHANGED <<model_text, history, profiles, worker, user_id, voice_transcript, chat,
                   calls, current_content, ai_text, hist_local, err, last_tool,
                   dispatches, delivered, ran, memVars, profVars>>

Step(r, tool_rounds, names, argsets) ==
    \/ InitChat(r)
    \/ InitChatRaises(r)
    \/ SendMessageRaises(r)
    \/ ModelRequestsTool(r, tool_rounds, names, argsets)
    \/ ModelReturnsText(r)
    \/ SaveRead(r)
    \/ SaveWrite(r)
    \/ SaveRaises(r)
    \/ Except(r)

\* Everything but the history files: no profile stored, no request received
InitServer ==
    /\ profiles = [u \in Users |-> NoProfile]
    /\ pc = [r \in Requests |-> "idle"]
    /\ worker = [r \in Requests |-> None]
    /\ user_id = [r \in Requests |-> None]
    /\ voice_transcript = [r \in Requests |-> NoText]
    /\ chat = [r \in Requests |-> <<>>]
    /\ calls = [r \in Requests |-> 0]
    /\ current_content = [r \in Requests |-> UserContent(NoText)]
    /\ ai_text = [r \in Requests |-> NoText]
    /\ model_text = [r \in Requests |-> NoText]
    /\ hist_local = [r \in Requests |-> <<>>]
    /\ err = [r \in Requests |-> None]
    /\ advice = [r \in Requests |-> NoText]
    /\ last_tool = [r \in Requests |-> NoTool]
    /\ dispatches = [r \in Requests |-> 0]
    /\ delivered = [r \in Requests |-> 0]
    /\ ran = [r \in Requests |-> {}]
    /\ written = [u \in Users |-> <<>>]
    /\ nupdates = 0
    /\ prof_call = [user |-> None, weight_kg |-> None, ftp |-> None]
    /\ prof_before = NoProfile

\* A server started with no history file
Init ==
    /\ history = [u \in Users |-> <<>>]
    /\ InitServer

\* One /coach request, the remote model free to emit a directive in every round
OneRequest == {"r1"}

Next ==
    \/ \E r \in OneRequest, u \in Users, w \in Workers : Receive(r, u, w)
    \/ \E r \in OneRequest : Step(r, MAX_TURNS, ToolNames, ToolArgs)

Spec == Init /\ [][Next]_vars

\* The history files outlive the server: a server started on the files of
\* earlier sessions, one exchange of u1 and a full file of u2
Exchange(n) ==
    <<Turn("user", <<"earlier question", n>>),
      Turn("assistant", <<"earlier answer", n>>)>>

StoredAtStart ==
    [u \in Users |->
        IF u = "u1" THEN Exchange("1")
        ELSE Exchange("1") \o Exchange("2") \o Exchange("3") \o Exchange("4")
                 \o Exchange("5")]

InitStored ==
    /\ history = StoredAtStart
    /\ InitServer

SpecStored == InitStored /\ [][Next]_vars

\* Two /coach requests on one or two server processes sharing the stores;
\* the remote model emits at most RaceToolRounds directives per request
RaceToolRounds == 1

RaceTools == {"my_progression", "bogus_tool"}

RaceArgs == {{}}

NextWorkers ==
    \/ \E r \in Requests, u \in Users, w \in Workers : Receive(r, u, w)
    \/ \E r \in Requests : Step(r, RaceToolRounds, RaceTools, RaceArgs)

SpecWorkers == Init /\ [][NextWorkers]_vars

----------------------------------------------------------------------------
(* Properties of one /coach request, checked under Spec *)

\* Steps the request still has to take, at most
Rank(r) ==
    CASE pc[r] = "idle"   -> MAX_TURNS + 7
      [] pc[r] = "load"   -> MAX_TURNS + 6
      [] pc[r] = "loop"   -> (MAX_TURNS - calls[r]) + 5
      [] pc[r] = "save"   -> 4
      [] pc[r] = "write"  -> 3
      [] pc[r] = "except" -> 1
      [] OTHER            -> 0

\* The handler's try block ran to the return of line 171: nothing raised
Normal(r) == pc[r] = "done" /\ err[r] = None

\* C1: whatever directives and texts the remote model answers with and whether
\* the requested tools succeed, raise or are unknown, a request makes at most
\* 10 send_message calls, is never stuck before its return, every step it takes
\* brings it closer to its return (so it terminates), and the advice it returns
\* from a run in which no handler step raised is a text of the model or the
\* fixed fallback apology.
C1_TurnBudget ==
    /\ [](\A r \in OneRequest :
            /\ calls[r] <= 10
            /\ Rank(r) >= 0
            /\ pc[r] \in {"load", "loop", "save", "write", "except"}
                  => ENABLED Step(r, MAX_TURNS, ToolNames, ToolArgs)
            /\ Normal(r) =>
                  advice[r] \in ModelTexts
                      \cup {<<"I'm sorry, I couldn't process your request.">>})
    /\ [][\A r \in OneRequest : Rank(r)' < Rank(r)]_reqVars

\* C1 witness: a request returned after ten rounds, the tenth answered by text
C1_Witness ==
    \E r \in OneRequest :
        Normal(r) /\ calls[r] = 10 /\ dispatches[r] = 9 /\ advice[r] \in ModelTexts

\* C2: when the model answers round k with text after directives in all
\* earlier rounds, the loop ends there: the answer is that text, the advice
\* returned (no handler step having raised) equals it, and from then on the
\* request makes no further send_message call and dispatches no further tool.
C2_TextEndsLoop ==
    /\ [](\A r \in OneRequest :
            /\ model_text[r] # NoText =>
                  /\ pc[r] \in {"save", "write", "done", "except"}
                  /\ ai_text[r] = model_text[r]
                  /\ dispatches[r] = calls[r] - 1
            /\ (Normal(r) /\ model_text[r] # NoText) => advice[r] = model_text[r])
    /\ [][\A r \in OneRequest :
            model_text[r] # NoText =>
                /\ calls'[r] = calls[r]
                /\ dispatches'[r] = dispatches[r]
                /\ ran'[r] = ran[r]
                /\ profiles' = profiles
                /\ model_text'[r] = model_text[r]]_vars

\* C2 witness: text in round 3 after two tool rounds, returned as the advice
C2_Witness ==
    \E r \in OneRequest :
        /\ Normal(r) /\ calls[r] = 3 /\ dispatches[r] = 2
        /\ model_text[r] \in ModelTexts /\ advice[r] = model_text[r]

\* C3: when the model emits a directive in each of the 10 rounds, the request
\* (no handler step having raised) returns exactly the fallback apology after
\* exactly 10 send_message calls, and no 11th call is made.
C3_FallbackAfterTen ==
    \A r \in OneRequest :
        /\ calls[r] <= 10
        /\ dispatches[r] = 10 =>
              /\ calls[r] = 10
              /\ ~ENABLED (Sent(r) /\ InLoop(r))
              /\ pc[r] \in {"save", "write", "done"} =>
                    ai_text[r] = <<"I'm sorry, I couldn't process your request.">>
              /\ Normal(r) =>
                    advice[r] = <<"I'm sorry, I couldn't process your request.">>

\* C3 witness: ten directive rounds, then the fallback returned
C3_Witness ==
    \E r \in OneRequest :
        Normal(r) /\ dispatches[r] = 10 /\ calls[r] = 10 /\ advice[r] = FALLBACK

\* C4 (as claimed): whenever a tool of the dispatcher map raises, the result is
\* "Error executing <name>: <cause>" and the loop proceeds to a next round trip
\* with the remote model.
C4_RaisedToolNextRound ==
    \A r \in OneRequest :
        (/\ last_tool[r].outcome = "raised"
         /\ last_tool[r].cause \in {"500: Strava fetch failed",
                                    "OSError: user_profiles.json"}) =>
            /\ current_content[r] =
                  [role |-> "function", name |-> last_tool[r].name,
                   text |-> <<"Error executing ", last_tool[r].name, ": ",
                              last_tool[r].cause>>]
            /\ err[r] = None => InLoop(r)

\* C5 (as claimed): whenever the model requests a name outside the dispatcher
\* map, nothing is executed or raised, the result is "Error: Tool <name> not
\* found." and the loop continues with the next round trip.
C5_UnknownToolNextRound ==
    \A r \in OneRequest :
        last_tool[r].outcome = "unknown" =>
            /\ last_tool[r].name \notin {"my_recent_activities", "analyze_ride",
                                         "my_progression", "update_stats"}
            /\ current_content[r] =
                  [role |-> "function", name |-> last_tool[r].name,
                   text |-> <<"Error: Tool ", last_tool[r].name, " not found.">>]
            /\ err[r] = None => InLoop(r)

\* What does hold of every dispatch, the 10th round included: a raise of a
\* mapped tool and an unknown name both end as an in-band error text in
\* current_content, nothing leaves the loop, and the request goes on to its
\* next iteration or, after the 10th, to the history save.
DispatchErrorsStayInBand ==
    \A r \in OneRequest :
        /\ last_tool[r].outcome = "raised" =>
              current_content[r] =
                  [role |-> "function", name |-> last_tool[r].name,
                   text |-> <<"Error executing ", last_tool[r].name, ": ",
                              last_tool[r].cause>>]
        /\ last_tool[r].outcome = "unknown" =>
              current_content[r] =
                  [role |-> "function", name |-> last_tool[r].name,
                   text |-> <<"Error: Tool ", last_tool[r].name, " not found.">>]
        /\ (last_tool[r].outcome \in {"raised", "unknown"} /\ err[r] = None) =>
              \/ pc[r] = "loop" /\ calls[r] < 10
              \/ pc[r] \in {"save", "write", "done"} /\ calls[r] = 10

\* C6: the handler never raises to the transport layer; when a step of the
\* chain raised, the request returns the advice "I encountered an error:
\* <cause>" with the cause of that step.
C6_HandlerNeverRaises ==
    \A r \in OneRequest :
        /\ pc[r] # "crashed"
        /\ err[r] # None => pc[r] \in {"except", "done"}
        /\ pc[r] = "done" => advice[r] # NoText
        /\ (pc[r] = "done" /\ err[r] # None) =>
              advice[r] = <<"I encountered an error: ", err[r]>>

\* C6 witness: the history save raised and the apology was returned
C6_Witness ==
    \E r \in OneRequest :
        /\ pc[r] = "done" /\ err[r] = "OSError: history file"
        /\ advice[r] = <<"I encountered an error: ", "OSError: history file">>

\* C7: every tool execution of a request runs with the request's user id,
\* whatever argument mapping the model supplies; the profile of a user no
\* request was made for is never written.
C7_ToolsBoundToRequestUser ==
    /\ \A r \in OneRequest : ran[r] \subseteq {user_id[r]}
    /\ \A u \in Users :
          (\A r \in OneRequest : user_id[r] # u) => profiles[u] = NoProfile

\* C7 witness: the model named another user in user_id; tools ran, and only
\* with the request's user id
C7_Witness ==
    \E r \in OneRequest :
        /\ last_tool[r].arg_user \in Users \ {user_id[r]}
        /\ last_tool[r].outcome = "raised"
        /\ ran[r] = {user_id[r]}
        /\ profiles[user_id[r]].present

----------------------------------------------------------------------------
(* The history store alone: a sequence of update_conversation_history calls *)

MaxUpdates == 7

Queries == {<<"q1">>, <<"q2">>}

Answers == {<<"a1">>}

\* update_conversation_history(user_id, user_query, ai_response), run alone
UpdateHistory(u, user_query, ai_response) ==
    /\ nupdates < MaxUpdates
    /\ history' = [history EXCEPT
                      ![u] = history_to_save(get_conversation_history(history, u),
                                             user_query, ai_response)]
    /\ written' = [written EXCEPT
                      ![u] = @ \o <<Turn("user", user_query),
                                    Turn("assistant", ai_response)>>]
    /\ nupdates' = nupdates + 1
    /\ UNCHANGED <<profiles, reqVars, profVars>>

NextMem == \E u \in Users, q \in Queries, a \in Answers : UpdateHistory(u, q, a)

SpecMem == Init /\ [][NextMem]_vars

\* C8: after K update_conversation_history calls for a user, starting from no
\* history, get_conversation_history returns exactly the last min(2K, 10)
\* turns of the transcript written, same role/content pairs, oldest first.
C8_HistoryRetention ==
    \A u \in Users :
        LET h    == get_conversation_history(history, u)
            n    == Len(written[u])
            keep == IF n <= 10 THEN n ELSE 10
        IN /\ Len(h) = keep
           /\ \A i \in 1..keep : h[i] = written[u][n - keep + i]

\* C8 witness: six exchanges of one user, the first one discarded
C8_Witness ==
    \E u \in Users :
        /\ Len(written[u]) = 12
        /\ Len(get_conversation_history(history, u)) = 10
        /\ get_conversation_history(history, u)[1] = written[u][3]
        /\ written[u][1] # written[u][3]

----------------------------------------------------------------------------
(* The profile store alone: a sequence of update_user_physical_stats calls *)

Weights == {None, "0", "70", "75"}

Ftps == {None, "0", "250", "260"}

\* What dict(fc.args) holds when the model supplies the non-None values
StatsArgs(weight_kg, ftp) ==
    {<<"weight_kg", weight_kg>> : x \in IF weight_kg = None THEN {} ELSE {1}}
    \cup {<<"ftp", ftp>> : x \in IF ftp = None THEN {} ELSE {1}}

\* update_user_physical_stats(user_id, weight_kg, ftp), run alone
UpdateStats(u, weight_kg, ftp) ==
    /\ profiles' = update_user_physical_stats(u, StatsArgs(weight_kg, ftp),
                                              "data", profiles).profiles
    /\ prof_call' = [user |-> u, weight_kg |-> weight_kg, ftp |-> ftp]
    /\ prof_before' = get_user_profile(profiles, u)
    /\ UNCHANGED <<history, reqVars, memVars>>

NextProfile == \E u \in Users, w \in Weights, f \in Ftps : UpdateStats(u, w, f)

SpecProfile == Init /\ [][NextProfile]_vars

\* C9: a profile update that leaves ftp absent does not change the stored ftp,
\* and one that leaves weight_kg absent does not change the stored weight_kg,
\* whatever the profile was before.
C9_AbsentFieldUntouched ==
    prof_call.user # None =>
        LET now == get_user_profile(profiles, prof_call.user) IN
        /\ prof_call.ftp = None => now.ftp = prof_before.ftp
        /\ prof_call.weight_kg = None => now.weight_kg = prof_before.weight_kg

\* C9 witness: only weight_kg supplied for a user with a stored ftp
C9_Witness ==
    /\ prof_call.user # None
    /\ prof_call.ftp = None /\ prof_call.weight_kg = "75"
    /\ prof_before.ftp = "250" /\ prof_before.weight_kg = "70"
    /\ get_user_profile(profiles, prof_call.user).weight_kg = "75"
    /\ get_user_profile(profiles, prof_call.user).ftp = "250"

----------------------------------------------------------------------------
(* Two requests, checked under SpecWorkers *)

\* Both requests were made for one user and both returned from line 171, yet
\* the stored history holds one exchange only
LostUpdate ==
    /\ \A r \in Requests : Normal(r)
    /\ user_id["r1"] = user_id["r2"]
    /\ Len(history[user_id["r1"]]) = 2

----------------------------------------------------------------------------
(* The declaration of the tools and their dispatch, checked under Spec *)

\* Every name a directive can carry: the model's, the declared ones and the
\* functions' own names
AllNames ==
    ToolNames \cup DeclaredTools
        \cup {"get_recent_activities_summary", "analyze_specific_ride_depth",
              "check_progression", "update_user_physical_stats"}

TypeErrors ==
    {"TypeError: got multiple values for keyword argument 'user_id'",
     "TypeError: got an unexpected keyword argument",
     "TypeError: missing 1 required positional argument"}

\* C11: the names declared to the remote model are exactly the keys of the
\* dispatcher map; the function a declared name resolves to accepts every
\* declared argument name; so a directive for a declared tool with its
\* declared arguments is never answered "Tool <name> not found" and its
\* arguments always bind.
C11_DeclaredToolsResolve ==
    /\ DeclaredTools = {n \in AllNames : GEMINI_TOOL_MAP(n) # None}
    /\ \A n \in DeclaredTools :
          /\ DeclaredParams(n) \subseteq Params(GEMINI_TOOL_MAP(n))
          /\ Required(GEMINI_TOOL_MAP(n)) \subseteq DeclaredRequired(n)
    /\ \A r \in Requests :
          last_tool[r].declared =>
              /\ last_tool[r].outcome \in {"ok", "raised"}
              /\ last_tool[r].cause \notin TypeErrors
              /\ current_content[r].text # ToolNotFound(last_tool[r].name)

\* C11 witness: update_stats, declared with two optional arguments, was
\* requested with one of them and its function ran
C11_Witness ==
    \E r \in Requests :
        /\ last_tool[r].declared
        /\ last_tool[r].name = "update_stats"
        /\ last_tool[r].outcome = "ok"
        /\ get_user_profile(profiles, user_id[r]).weight_kg = "70"

\* C12: every dispatched tool's outcome is sent to the remote model in the
\* round trip that follows the dispatch, the tenth round's included: a request
\* that leaves the loop has delivered as many outcomes as it dispatched tools.
C12_EveryOutcomeDelivered ==
    \A r \in Requests :
        (pc[r] \in {"save", "write", "done"} /\ err[r] = None) =>
            delivered[r] = dispatches[r]

\* The outcomes of rounds 1 to 9 are delivered; an outcome is dropped only
\* when the tenth send_message call was answered by a directive
OnlyTenthOutcomeDropped ==
    \A r \in Requests :
        (pc[r] \in {"save", "write", "done"} /\ err[r] = None) =>
            \/ delivered[r] = dispatches[r]
            \/ /\ dispatches[r] = MAX_TURNS /\ calls[r] = MAX_TURNS
               /\ delivered[r] = MAX_TURNS - 1
               /\ ai_text[r] = FALLBACK
               /\ current_content[r].role = "function"

----------------------------------------------------------------------------
(* What one /coach request persists, checked under SpecStored *)

\* The stored history of user u followed by the exchange of request r, pruned
\* to the ten latest turns
WithExchange(u, r) ==
    LET h == StoredAtStart[u]
                \o <<[role |-> "user", content |-> voice_transcript[r]],
                     [role |-> "assistant", content |-> advice[r]]>>
    IN IF Len(h) <= 10 THEN h ELSE SubSeq(h, Len(h) - 9, Len(h))

\* C13: a completed agent run, ended by a text or by the fallback, appends
\* exactly one pair to the history of its user: a user turn holding the
\* utterance, then an assistant turn holding the answer returned to the client.
\* Nothing else is written: no tool directive, no tool outcome, no other
\* user's file, and the file changes in the run's single write only.
C13_OnePairPerRun ==
    /\ [](\A r \in OneRequest :
            Normal(r) =>
                /\ advice[r] \in ModelTexts \cup {FALLBACK}
                /\ \A u \in Users :
                      history[u] = IF u = user_id[r] THEN WithExchange(u, r)
                                   ELSE StoredAtStart[u])
    /\ [](\A u \in Users : \A i \in DOMAIN history[u] :
            history[u][i].role \in {"user", "assistant"})
    /\ [][\A u \in Users :
            history'[u] # history[u] =>
                \E r \in OneRequest :
                    /\ user_id[r] = u /\ err[r] = None
                    /\ pc[r] = "write" /\ pc'[r] = "done"]_vars

\* C13 witness: ten tool rounds, the fallback returned; the full file of u2
\* lost its oldest exchange and ends with the utterance and the fallback
C13_Witness ==
    \E r \in OneRequest :
        /\ Normal(r) /\ dispatches[r] = MAX_TURNS /\ advice[r] = FALLBACK
        /\ user_id[r] = "u2"
        /\ Len(history["u2"]) = 10
        /\ history["u2"][1] = StoredAtStart["u2"][3]
        /\ history["u2"][9] = [role |-> "user", content |-> voice_transcript[r]]
        /\ history["u2"][10] = [role |-> "assistant", content |-> FALLBACK]

\* What the steps before the history save raise
PreSaveCauses ==
    {"JSONDecodeError: history file", "ValueError: start_chat",
     "ConnectionError: send_message"}

----------------------------------------------------------------------------
(* Profile updates, checked under SpecProfile *)

\* C15: update_user_physical_stats persists every field it is given: for any
\* supplied value, 0 included, get_user_profile afterwards returns that value
\* for the field, also for a user that had no record before.
C15_SuppliedFieldsPersisted ==
    prof_call.user # None =>
        LET now == get_user_profile(profiles, prof_call.user) IN
        /\ prof_call.weight_kg # None => now.weight_kg = prof_call.weight_kg
        /\ prof_call.ftp # None => now.ftp = prof_call.ftp

\* The user has a record after the call, every supplied value other than 0
\* is persisted, and a supplied 0 leaves the stored field as it was
SuppliedZeroDropped ==
    prof_call.user # None =>
        LET now == get_user_profile(profiles, prof_call.user) IN
        /\ profiles[prof_call.user].present
        /\ prof_call.weight_kg \notin {None, "0"} =>
              now.weight_kg = prof_call.weight_kg
        /\ prof_call.ftp \notin {None, "0"} => now.ftp = prof_call.ftp
        /\ prof_call.weight_kg = "0" => now.weight_kg = prof_before.weight_kg
        /\ prof_call.ftp = "0" => now.ftp = prof_before.ftp

----------------------------------------------------------------------------
(* Provider failures during a tool, checked under Spec *)

====
